---- MODULE Spec2Model ----
(***************************************************************************)
(* Loan amortization schedule engine of src/app.py: LoanSchedule.__init__, *)
(* LoanSchedule.calculate_schedule and the /calculate handler around them. *)
(*                                                                         *)
(* Amounts are integers in the currency unit of the request. Python's      *)
(* float products and quotients are modelled by integer arithmetic that    *)
(* floors to one unit (MulDiv), so a modelled amount is within a few units *)
(* of the float the program computes; the inputs use a principal of        *)
(* 12 000 000 units to make that error relatively negligible (1e-7).       *)
(* annual_interest_rate is kept as the percentage the caller passes.       *)
(* Dates are records [y, m, d]; strptime / strftime of '%Y-%m-%d' map      *)
(* a valid date string to that triple and back.                            *)
(***************************************************************************)
EXTENDS Integers, Sequences, FiniteSets, TLC

VARIABLES args, pc, schedule, monthly_payment, remaining_balance,
          current_date, payment_num, returned

vars == <<args, pc, schedule, monthly_payment, remaining_balance,
          current_date, payment_num, returned>>

---------------------------------------------------------------------------
(* Bounds of the model *)

\* longest part_payments list a request carries
MaxPartPayments == 2

\* calls of calculate_schedule on one LoanSchedule object (SpecReuse)
MaxCalls == 2

\* absolute tolerance, in currency units, standing for "floating-point
\* tolerance" in statements about sums of amounts
Tolerance == 100

\* finest fixed-point scale of the compound factor (1 + monthly_rate) ** n
PowScale == 1000000000

---------------------------------------------------------------------------
(* Arithmetic helpers *)

Min(a, b) == IF a <= b THEN a ELSE b

Max(a, b) == IF a >= b THEN a ELSE b

\* floor(a * b / c), the float expression a * b / c to one unit, for
\* a, b >= 0, c > 0 and b * c below 2^31: a = (a \div c) * c + (a % c)
MulDiv(a, b, c) == (a \div c) * b + ((a % c) * b) \div c

\* floor(a * b / c) for operands whose product exceeds 32 bits, with
\* a, b >= 0 and 0 < c < 2^30: the binary digits of b are consumed from the
\* lowest; tq * c + tr is a times the current power of two, q * c + r the
\* part of a * b summed so far, tr < c and r < c
RECURSIVE MulDivAcc(_, _, _, _, _, _)
MulDivAcc(b, c, tq, tr, q, r) ==
    IF b = 0 THEN q
    ELSE MulDivAcc(b \div 2, c,
                   IF b < 2 THEN 0 ELSE 2 * tq + ((2 * tr) \div c),
                   (2 * tr) % c,
                   q + (b % 2) * tq + ((r + (b % 2) * tr) \div c),
                   (r + (b % 2) * tr) % c)

MulDivWide(a, b, c) == MulDivAcc(b, c, a \div c, a % c, 0, 0)

---------------------------------------------------------------------------
(* Calendar: datetime.date, timedelta, relativedelta *)

Date(y, m, d) == [y |-> y, m |-> m, d |-> d]

\* LoanSchedule._is_leap_year
IsLeapYear(year) ==
    year % 4 = 0 /\ (year % 100 # 0 \/ year % 400 = 0)

\* length of a month of the proleptic Gregorian calendar (datetime)
DaysInMonth(y, m) ==
    IF m = 2 THEN (IF IsLeapYear(y) THEN 29 ELSE 28)
    ELSE IF m \in {4, 6, 9, 11} THEN 30 ELSE 31

RECURSIVE DaysBeforeMonth(_, _)
DaysBeforeMonth(y, m) ==
    IF m = 1 THEN 0 ELSE DaysBeforeMonth(y, m - 1) + DaysInMonth(y, m - 1)

\* date.toordinal(): day number, 0001-01-01 is day 1
Ordinal(dt) ==
    LET p == dt.y - 1
    IN  365 * p + (p \div 4) - (p \div 100) + (p \div 400)
        + DaysBeforeMonth(dt.y, dt.m) + dt.d

\* a <= b on dates
DateLE(a, b) == Ordinal(a) <= Ordinal(b)

DateLT(a, b) == Ordinal(a) < Ordinal(b)

\* (b - a).days
DaysBetween(a, b) == Ordinal(b) - Ordinal(a)

NextDay(dt) ==
    IF dt.d < DaysInMonth(dt.y, dt.m) THEN Date(dt.y, dt.m, dt.d + 1)
    ELSE IF dt.m < 12 THEN Date(dt.y, dt.m + 1, 1)
    ELSE Date(dt.y + 1, 1, 1)

PrevDay(dt) ==
    IF dt.d > 1 THEN Date(dt.y, dt.m, dt.d - 1)
    ELSE IF dt.m > 1 THEN Date(dt.y, dt.m - 1, DaysInMonth(dt.y, dt.m - 1))
    ELSE Date(dt.y - 1, 12, 31)

\* dt + timedelta(days = n)
RECURSIVE AddDays(_, _)
AddDays(dt, n) ==
    IF n = 0 THEN dt
    ELSE IF n > 0 THEN AddDays(NextDay(dt), n - 1)
    ELSE AddDays(PrevDay(dt), n + 1)

\* dt.replace(day = d)
ReplaceDay(dt, d) == Date(dt.y, dt.m, d)

\* dt + relativedelta(months = 1): the same day of the next month, or that
\* month's last day when it is shorter
AddOneMonth(dt) ==
    LET y == IF dt.m = 12 THEN dt.y + 1 ELSE dt.y
        m == IF dt.m = 12 THEN 1 ELSE dt.m + 1
    IN  Date(y, m, Min(dt.d, DaysInMonth(y, m)))

LastDayIgnoringLeap(next_month) ==
    Date(next_month.y, next_month.m,
         IF next_month.m = 2 THEN 28
         ELSE DaysInMonth(next_month.y, next_month.m))

\* last_day_of_next_month
LastDayOfMonth(next_month) ==
    AddDays(ReplaceDay(AddDays(ReplaceDay(next_month, 28), 4), 1), -1)

\* next_payment_date of a period that starts on cd
NextPaymentDate(cd) ==
    LET next_month       == AddOneMonth(cd)
        next_payment_day == Min(cd.d, LastDayOfMonth(next_month).d)
    IN  ReplaceDay(next_month, next_payment_day)

---------------------------------------------------------------------------
(* Requests: the arguments the /calculate handler passes to LoanSchedule *)

RecognizedConventions == {"actual_365", "30_360"}

\* str.lower() on the convention tags a request carries
Lower(s) == IF s = "ACTUAL_365" THEN "actual_365" ELSE s

StartDates == {Date(2023, 1, 31), Date(2023, 3, 15), Date(2023, 3, 31)}

PartPaymentDates == {Date(2023, 3, 15), Date(2023, 4, 10), Date(2023, 4, 15)}

PartPaymentAmounts == {2000000, 20000000}

PartPaymentChoices ==
    [date : PartPaymentDates, amount : PartPaymentAmounts]

RECURSIVE SeqsUpTo(_, _)
SeqsUpTo(S, n) ==
    IF n = 0 THEN {<<>>}
    ELSE LET shorter == SeqsUpTo(S, n - 1)
         IN  shorter \cup {Append(q, x) : q \in shorter, x \in S}

PartPaymentLists == SeqsUpTo(PartPaymentChoices, MaxPartPayments)

\* requests that satisfy principal > 0, rate >= 0, term >= 1 and name a
\* recognized convention
ValidArgs ==
    [principal : {12000000},
     annual_interest_rate : {0, 12},
     loan_term_years : {1},
     start_date : StartDates,
     part_payments : PartPaymentLists,
     day_count_convention : RecognizedConventions]

\* requests at the edge of the input domain: zero principal, zero term,
\* an upper-case tag and an unknown tag
EdgeArgs ==
    [principal : {0, 12000000},
     annual_interest_rate : {0, 12},
     loan_term_years : {0, 1},
     start_date : {Date(2023, 3, 15)},
     part_payments : {<<>>},
     day_count_convention : {"actual_365", "ACTUAL_365", "act_360"}]

\* valid requests for a long loan at a high rate, where the interest of a
\* 31-day period exceeds the level payment, retired by one part payment
\* of exactly the principal in the first period
HighRateArgs ==
    [principal : {12000000},
     annual_interest_rate : {20},
     loan_term_years : {30},
     start_date : {Date(2023, 1, 1)},
     part_payments : {<<[date |-> d, amount |-> 12000000]>> :
                         d \in {Date(2023, 1, 15), Date(2023, 2, 1)}},
     day_count_convention : RecognizedConventions]

ArgsChoices == ValidArgs \cup EdgeArgs \cup HighRateArgs

---------------------------------------------------------------------------
(* calculate_schedule: the level payment *)

\* (1 + monthly_rate) ** n as a fixed-point number of the given scale,
\* monthly_rate = rate / 1200, by repeated squaring
RECURSIVE CompoundFactor(_, _, _)
CompoundFactor(rate_pct, n, scale) ==
    IF n = 0 THEN scale
    ELSE LET h  == CompoundFactor(rate_pct, n \div 2, scale)
             sq == MulDivWide(h, h, scale)
         IN  IF n % 2 = 1 THEN MulDiv(sq, 1200 + rate_pct, 1200) ELSE sq

\* the finest of the scales PowScale, PowScale / 10, ... at which the
\* compound factor stays below 2^31 and the factor minus one below 2^30
\* (f is an integer above the factor, for factors below 2000)
FactorScale(rate_pct, n) ==
    LET f      == (CompoundFactor(rate_pct, n, 1000000) \div 1000000) + 1
        scales == {PowScale, PowScale \div 10, PowScale \div 100,
                   PowScale \div 1000}
        fits   == {sc \in scales : /\ sc <= 2147483647 \div f
                                   /\ sc <= 1073741823 \div (f - 1)}
    IN  CHOOSE sc \in fits : \A t \in fits : t <= sc

\* monthly_payment, for total_payments > 0
MonthlyPayment(principal, rate_pct, total_payments) ==
    IF rate_pct = 0 THEN principal \div total_payments
    ELSE LET scale == FactorScale(rate_pct, total_payments)
             x     == CompoundFactor(rate_pct, total_payments, scale)
         IN  IF x <= scale THEN 0
             ELSE MulDivWide(x, MulDiv(principal, rate_pct, 1200), x - scale)

---------------------------------------------------------------------------
(* calculate_schedule: the part payments of one period *)

InPeriodNoUpperBound(pp_date, cd, npd) == DateLE(cd, pp_date)

\* current_date <= pp_date <= next_payment_date
InPeriod(pp_date, cd, npd) == DateLE(cd, pp_date) /\ DateLE(pp_date, npd)

\* 'original_index': entries of the whole list with the same date string
\* whose date is earlier, plus one
OriginalIndex(pps, pp) ==
    Cardinality({k \in DOMAIN pps :
                    pps[k].date = pp.date /\ DateLT(pps[k].date, pp.date)}) + 1

\* period_part_payments before sorting, in input order
CollectPeriodPartPayments(pps, cd, npd) ==
    LET sel == SelectSeq(pps, LAMBDA pp : InPeriod(pp.date, cd, npd))
    IN  [i \in 1..Len(sel) |->
            [date |-> sel[i].date, amount |-> sel[i].amount,
             original_index |-> OriginalIndex(pps, sel[i])]]

\* sort key (date, original_index): a sorts no later than b
KeyLE(a, b) ==
    \/ DateLT(a.date, b.date)
    \/ a.date = b.date /\ a.original_index <= b.original_index

\* x placed after the last element of the sorted s that sorts no later
RECURSIVE InsertSorted(_, _)
InsertSorted(s, x) ==
    IF s = <<>> THEN <<x>>
    ELSE IF KeyLE(s[Len(s)], x) THEN Append(s, x)
    ELSE Append(InsertSorted(SubSeq(s, 1, Len(s) - 1), x), s[Len(s)])

\* list.sort(key = ...): stable
RECURSIVE SortByDate(_)
SortByDate(s) ==
    IF s = <<>> THEN <<>>
    ELSE InsertSorted(SortByDate(SubSeq(s, 1, Len(s) - 1)), s[Len(s)])

\* the sorted part payments of the period and the end-of-period marker
\* (the marker carries no 'original_index'; 0 stands for its absence)
PeriodPartPayments(pps, cd, npd) ==
    Append(SortByDate(CollectPeriodPartPayments(pps, cd, npd)),
           [date |-> npd, amount |-> 0, original_index |-> 0])

---------------------------------------------------------------------------
(* calculate_schedule: interest of one sub-period *)

\* days_in_year under actual_365: of the year the sub-period starts in
DaysInYear(current_period_start) ==
    IF IsLeapYear(current_period_start.y) THEN 366 ELSE 365

\* days under 30_360
Days360(current_period_start, end_date) ==
    LET d1 == Min(current_period_start.d, 30)
        d2 == Min(end_date.d, 30)
    IN  Max(0, 360 * (end_date.y - current_period_start.y)
               + 30 * (end_date.m - current_period_start.m) + (d2 - d1))

\* subperiod_interest
SubperiodInterest(convention, temp_balance, rate_pct, period_start, end_date) ==
    IF convention = "actual_365"
    THEN MulDiv(temp_balance,
                rate_pct * DaysBetween(period_start, end_date),
                100 * DaysInYear(period_start))
    ELSE MulDiv(temp_balance,
                rate_pct * Days360(period_start, end_date),
                100 * 360)

\* schedule rows; payment_number of a part-payment row is the N of its
\* "Part Payment N" label
PartPaymentEntry(pp, temp_balance) ==
    [payment_number |-> pp.original_index,
     date |-> pp.date,
     payment |-> pp.amount,
     principal |-> pp.amount,
     interest |-> 0,
     remaining_balance |-> temp_balance - pp.amount,
     is_part_payment |-> TRUE]

\* end_date <= current_period_start: the entry is passed over
SkipSubPeriod(end_date, current_period_start) ==
    DateLE(end_date, current_period_start)

\* the loop over period_part_payments from index i on; w carries
\* period_interest, current_period_start, temp_balance and the rows appended
RECURSIVE WalkSubPeriods(_, _, _, _, _)
WalkSubPeriods(list, i, convention, rate_pct, w) ==
    IF i > Len(list) THEN w
    ELSE LET pp == list[i]
         IN  IF SkipSubPeriod(pp.date, w.current_period_start)
             THEN WalkSubPeriods(list, i + 1, convention, rate_pct, w)
             ELSE LET si == SubperiodInterest(convention, w.temp_balance,
                                rate_pct, w.current_period_start, pp.date)
                      paid == pp.amount > 0
                  IN  WalkSubPeriods(list, i + 1, convention, rate_pct,
                        [period_interest |-> w.period_interest + si,
                         current_period_start |-> pp.date,
                         temp_balance |->
                             IF paid THEN Max(w.temp_balance - pp.amount, 0)
                             ELSE w.temp_balance,
                         entries |->
                             IF paid
                             THEN Append(w.entries,
                                         PartPaymentEntry(pp, w.temp_balance))
                             ELSE w.entries])

\* remaining_balance <= 0: the loop breaks
PaidOff(balance) == balance <= 0

---------------------------------------------------------------------------
(* State machine *)

Init ==
    /\ args \in ArgsChoices
    /\ pc = "request"
    /\ schedule = <<>>
    /\ monthly_payment = 0
    /\ remaining_balance = 0
    /\ current_date = args.start_date
    /\ payment_num = 0
    /\ returned = 0

\* LoanSchedule.__init__, called by the handler; a ValueError becomes the
\* handler's 400 response
Construct ==
    /\ pc = "request"
    /\ pc' = IF Lower(args.day_count_convention) \in RecognizedConventions
             THEN "constructed" ELSE "rejected"
    /\ schedule' = <<>>
    /\ UNCHANGED <<args, monthly_payment, remaining_balance, current_date,
                   payment_num, returned>>

\* calculate_schedule up to the loop; with total_payments = 0 both payment
\* formulas divide by zero (ZeroDivisionError, which the handler does not catch)
\* (the requests modelled have loan_term_years >= 0, so range(1, n + 1) is
\* non-empty whenever the payment is computed)
BeginSchedule ==
    /\ pc = "constructed"
    /\ LET total_payments == args.loan_term_years * 12
       IN  IF total_payments = 0
           THEN /\ pc' = "crashed"
                /\ UNCHANGED <<monthly_payment, remaining_balance,
                               current_date, payment_num>>
           ELSE /\ pc' = "loop"
                /\ monthly_payment' = MonthlyPayment(args.principal,
                                          args.annual_interest_rate,
                                          total_payments)
                /\ remaining_balance' = args.principal
                /\ current_date' = args.start_date
                /\ payment_num' = 1
    /\ UNCHANGED <<args, schedule, returned>>

\* the body of the loop for one payment_num, from the balance and the date
\* the iteration starts with: the rows it appends, the balance and the date
\* it leaves, and whether the loop ends with it
PeriodResult(payment, balance_in, date_in, num) ==
    LET next_payment_date == NextPaymentDate(date_in)
        w == WalkSubPeriods(
                 PeriodPartPayments(args.part_payments, date_in,
                                    next_payment_date),
                 1, Lower(args.day_count_convention),
                 args.annual_interest_rate,
                 [period_interest |-> 0,
                  current_period_start |-> date_in,
                  temp_balance |-> balance_in,
                  entries |-> <<>>])
        interest == w.period_interest
        principal_payment == Min(payment - interest, w.temp_balance)
        balance == Max(w.temp_balance - principal_payment, 0)
        row == [payment_number |-> num,
                date |-> next_payment_date,
                payment |-> principal_payment + interest,
                principal |-> principal_payment,
                interest |-> interest,
                remaining_balance |-> Max(balance, 0),
                is_part_payment |-> FALSE]
    IN  [rows |-> Append(w.entries, row),
         balance |-> balance,
         date |-> next_payment_date,
         last |-> PaidOff(balance) \/ num = args.loan_term_years * 12]

\* one iteration of the loop over payment_num, and the return when it is
\* the last one; the value returned is the list self.schedule itself, so
\* returned only counts the calls that have returned
ProcessPeriod ==
    /\ pc = "loop"
    /\ LET p == PeriodResult(monthly_payment, remaining_balance,
                             current_date, payment_num)
       IN  /\ schedule' = schedule \o p.rows
           /\ remaining_balance' = p.balance
           /\ current_date' = p.date
           /\ IF p.last
              THEN /\ pc' = "done"
                   /\ returned' = returned + 1
                   /\ UNCHANGED payment_num
              ELSE /\ pc' = "loop"
                   /\ payment_num' = payment_num + 1
                   /\ UNCHANGED returned
    /\ UNCHANGED <<args, monthly_payment>>

\* a caller invokes calculate_schedule again on the same object
CallAgain ==
    /\ pc = "done"
    /\ returned < MaxCalls
    /\ pc' = "constructed"
    /\ UNCHANGED <<args, schedule, monthly_payment, remaining_balance,
                   current_date, payment_num, returned>>

\* the rows the loop appends from payment_num = num on
RECURSIVE RowsFrom(_, _, _, _)
RowsFrom(payment, balance_in, date_in, num) ==
    LET p == PeriodResult(payment, balance_in, date_in, num)
    IN  IF p.last THEN p.rows
        ELSE p.rows \o RowsFrom(payment, p.balance, p.date, num + 1)

\* what calculate_schedule returns on a freshly constructed LoanSchedule
\* with the arguments of the request (self.schedule starts empty)
FreshSchedule ==
    RowsFrom(MonthlyPayment(args.principal, args.annual_interest_rate,
                            args.loan_term_years * 12),
             args.principal, args.start_date, 1)

\* the /calculate handler: one object, one call
Next == Construct \/ BeginSchedule \/ ProcessPeriod

Spec == Init /\ [][Next]_vars

\* a LoanSchedule object whose calculate_schedule is called more than once
NextReuse == Construct \/ BeginSchedule \/ ProcessPeriod \/ CallAgain

SpecReuse == Init /\ [][NextReuse]_vars

---------------------------------------------------------------------------
(* Vocabulary of the properties *)

\* the request satisfies the documented input contract
ValidInput ==
    /\ args.principal > 0
    /\ args.annual_interest_rate >= 0
    /\ args.loan_term_years >= 1
    /\ Lower(args.day_count_convention) \in RecognizedConventions

\* the first call of calculate_schedule has returned its schedule
Returned == pc = "done" /\ returned = 1

TotalPayments == args.loan_term_years * 12

Installments == {i \in DOMAIN schedule : ~schedule[i].is_part_payment}

PartPaymentRows == {i \in DOMAIN schedule : schedule[i].is_part_payment}

\* index of the last installment row before row i, 0 when there is none
PrevInstallment(i) ==
    LET before == {j \in Installments : j < i}
    IN  IF before = {} THEN 0
        ELSE CHOOSE j \in before : \A k \in before : k <= j

\* index of the first installment row after row i, 0 when there is none
NextInstallment(i) ==
    LET after == {j \in Installments : j > i}
    IN  IF after = {} THEN 0
        ELSE CHOOSE j \in after : \A k \in after : j <= k

\* the outstanding balance just before row i takes effect
BalanceBefore(i) ==
    IF i = 1 THEN args.principal
    ELSE Max(schedule[i - 1].remaining_balance, 0)

\* start date of the period whose installment is row i
PeriodStart(i) ==
    IF PrevInstallment(i) = 0 THEN args.start_date
    ELSE schedule[PrevInstallment(i)].date

RECURSIVE SumRows(_, _, _)
SumRows(F(_), lo, hi) ==
    IF lo > hi THEN 0 ELSE F(lo) + SumRows(F, lo + 1, hi)

---------------------------------------------------------------------------
(* C1 *)

\* C1: in the schedule calculate_schedule returns for a valid request,
\* every row, installment or part payment, has remaining_balance >= 0
C1_BalancesNeverNegative ==
    (Returned /\ ValidInput) =>
        \A i \in DOMAIN schedule : schedule[i].remaining_balance >= 0

---------------------------------------------------------------------------
(* C2 *)

\* C2: in the returned schedule each row's remaining_balance is at most
\* that of the row before it, and the first row's is at most the principal
C2_BalanceNonIncreasing ==
    (Returned /\ ValidInput) =>
        /\ schedule[1].remaining_balance <= args.principal
        /\ \A i \in 2..Len(schedule) :
              schedule[i].remaining_balance <= schedule[i - 1].remaining_balance

---------------------------------------------------------------------------
(* C3 *)

InstallmentPrincipal(i) ==
    IF schedule[i].is_part_payment THEN 0 ELSE schedule[i].principal

\* the amount by which the part payment of row i lowered the balance
PartPaymentReduction(i) ==
    IF schedule[i].is_part_payment
    THEN BalanceBefore(i) - Max(schedule[i].remaining_balance, 0)
    ELSE 0

PrincipalRetired ==
    SumRows(InstallmentPrincipal, 1, Len(schedule))
    + SumRows(PartPaymentReduction, 1, Len(schedule))

\* C3: when calculate_schedule returns for a valid request, the principal
\* parts of the installments plus the balance reductions of the part
\* payments add up to the original principal (within Tolerance), and a
\* schedule that ends before the nominal term ends on balance 0
C3_PrincipalConserved ==
    (Returned /\ ValidInput) =>
        /\ args.principal - PrincipalRetired <= Tolerance
        /\ PrincipalRetired - args.principal <= Tolerance
        /\ Cardinality(Installments) < TotalPayments =>
              schedule[Len(schedule)].remaining_balance = 0

---------------------------------------------------------------------------
(* C4 *)

LastDueDate == schedule[Len(schedule)].date

\* part payments of the request the schedule has to show
DuePartPayments ==
    {k \in DOMAIN args.part_payments :
        /\ args.part_payments[k].amount > 0
        /\ DateLE(args.start_date, args.part_payments[k].date)
        /\ DateLE(args.part_payments[k].date, LastDueDate)}

\* C4: every part payment with a positive amount dated between the start
\* date and the last installment's due date has exactly one row of its own:
\* for each date and amount the schedule holds as many part-payment rows
\* as the request holds such part payments
C4_EachPartPaymentAppliedOnce ==
    (Returned /\ ValidInput) =>
        \A k \in DuePartPayments :
            LET pp == args.part_payments[k]
            IN  Cardinality({i \in PartPaymentRows :
                                /\ schedule[i].date = pp.date
                                /\ schedule[i].payment = pp.amount})
                = Cardinality({j \in DuePartPayments :
                                args.part_payments[j] = pp})

---------------------------------------------------------------------------
(* C5 *)

\* C5: for a valid request at most loan_term_years * 12 installments are
\* emitted, numbered 1..n in order; while the loop runs no row has reached
\* balance 0; in the returned schedule the last row is an installment, a
\* row with balance 0 (or below) is followed by no installment other than
\* the one closing its own period, and that closing installment shows 0
C5_EarlyPayoffTermination ==
    ValidInput =>
        /\ Cardinality(Installments) <= TotalPayments
        /\ \A i \in Installments :
              schedule[i].payment_number
                  = Cardinality({j \in Installments : j <= i})
        /\ pc = "loop" =>
              \A i \in DOMAIN schedule : schedule[i].remaining_balance > 0
        /\ Returned =>
              /\ Len(schedule) \in Installments
              /\ \A i \in DOMAIN schedule :
                    schedule[i].remaining_balance <= 0 =>
                        /\ i \in Installments => i = Len(schedule)
                        /\ i \in PartPaymentRows =>
                              NextInstallment(i) = Len(schedule)
                        /\ schedule[Len(schedule)].remaining_balance = 0

---------------------------------------------------------------------------
(* C6 *)

\* C6: a request with principal <= 0, rate < 0, term < 1 or an
\* unrecognized convention is rejected and yields no schedule rows
C6_InvalidInputRejected ==
    ~ValidInput => (pc # "done" /\ schedule = <<>>)

---------------------------------------------------------------------------
(* C7 *)

\* C7: a second call of calculate_schedule on the same object returns a
\* schedule equal (same entries, same order, same length) to the one a
\* freshly constructed LoanSchedule with the same arguments returns; both
\* calls return the list self.schedule itself, which is the variable
\* schedule
C7_SecondCallReturnsSameSchedule ==
    (pc = "done" /\ returned >= 2) => schedule = FreshSchedule

---------------------------------------------------------------------------
(* C8 *)

\* C8: row dates never decrease in output order; a part-payment row dated d
\* comes after the installment of the previous period (due before d) and
\* before the installment of its own period (due on d or later)
C8_ChronologicalInterleaving ==
    ValidInput =>
        /\ \A i \in 2..Len(schedule) :
              DateLE(schedule[i - 1].date, schedule[i].date)
        /\ \A i \in PartPaymentRows :
              /\ DateLT(PeriodStart(i), schedule[i].date)
              /\ pc = "done" =>
                    /\ NextInstallment(i) # 0
                    /\ DateLE(schedule[i].date,
                              schedule[NextInstallment(i)].date)

\* part payments given latest first, two of them emitted inside one period
\* in date order, and one dated on the due date right before its installment
C8_Witness ==
    /\ Returned /\ ValidInput
    /\ Len(args.part_payments) = 2
    /\ DateLT(args.part_payments[2].date, args.part_payments[1].date)
    /\ \E i \in PartPaymentRows :
          /\ i + 1 \in PartPaymentRows
          /\ schedule[i].date = args.part_payments[2].date
          /\ schedule[i + 1].date = args.part_payments[1].date
          /\ i + 2 \in Installments
          /\ schedule[i + 2].date = schedule[i + 1].date

---------------------------------------------------------------------------
(* C9 *)

\* the day fraction of a sub-period as the claim states it
ClaimYearLength(y) ==
    IF y % 4 = 0 /\ (y % 100 # 0 \/ y % 400 = 0) THEN 366 ELSE 365

ClaimDays360(s, e) ==
    Max(0, 360 * (e.y - s.y) + 30 * (e.m - s.m)
           + (Min(e.d, 30) - Min(s.d, 30)))

ClaimInterest(balance, s, e) ==
    IF Lower(args.day_count_convention) = "actual_365"
    THEN MulDiv(balance, args.annual_interest_rate * (Ordinal(e) - Ordinal(s)),
                100 * ClaimYearLength(s.y))
    ELSE MulDiv(balance, args.annual_interest_rate * ClaimDays360(s, e),
                36000)

\* the part payments of the request that fall in the period of installment
\* i: after its start, up to its due date, and, for the first period, on
\* the start date itself (one dated on a due date counts for the period it
\* ends, not again for the period it starts)
ClaimPeriodPayments(i) ==
    {k \in DOMAIN args.part_payments :
        /\ args.part_payments[k].amount > 0
        /\ DateLE(args.part_payments[k].date, schedule[i].date)
        /\ \/ DateLT(PeriodStart(i), args.part_payments[k].date)
           \/ /\ PrevInstallment(i) = 0
              /\ args.part_payments[k].date = args.start_date}

RECURSIVE ClaimAmountOn(_, _, _)
ClaimAmountOn(i, d, k) ==
    IF k = 0 THEN 0
    ELSE ClaimAmountOn(i, d, k - 1)
         + (IF k \in ClaimPeriodPayments(i) /\ args.part_payments[k].date = d
            THEN args.part_payments[k].amount ELSE 0)

\* the balance once the part payments dated d have lowered it
ClaimLowered(i, balance, d) ==
    Max(balance - ClaimAmountOn(i, d, Len(args.part_payments)), 0)

\* interest from date cur, where the balance is as given, to the due date
\* of installment i, split at every later part-payment date of the period
RECURSIVE ClaimAccrual(_, _, _)
ClaimAccrual(i, cur, balance) ==
    IF cur = schedule[i].date THEN 0
    ELSE LET later == {args.part_payments[k].date : k \in ClaimPeriodPayments(i)}
                      \cup {schedule[i].date}
             ahead == {d \in later : DateLT(cur, d)}
             nxt   == CHOOSE d \in ahead : \A e \in ahead : DateLE(d, e)
         IN  ClaimInterest(balance, cur, nxt)
             + ClaimAccrual(i, nxt, ClaimLowered(i, balance, nxt))

\* the interest the claim states for installment i
ClaimedInterest(i) ==
    LET opening == IF PrevInstallment(i) = 0 THEN args.principal
                   ELSE schedule[PrevInstallment(i)].remaining_balance
    IN  ClaimAccrual(i, PeriodStart(i),
                     ClaimLowered(i, opening, PeriodStart(i)))

\* C9: the interest of each installment is the sum, over the sub-periods
\* into which the part-payment dates of the request inside its period
\* split it, of the balance at the sub-period's start times rate times
\* day fraction, every part payment lowering the balance for the
\* sub-periods after its date; with rate 0 every installment has interest
\* 0 and every installment that does not retire the loan pays
\* principal / totalMonths
C9_SubPeriodInterest ==
    ValidInput =>
        \A i \in Installments :
            /\ schedule[i].interest = ClaimedInterest(i)
            /\ args.annual_interest_rate = 0 =>
                  /\ schedule[i].interest = 0
                  /\ schedule[i].remaining_balance > 0 =>
                        schedule[i].payment * TotalPayments = args.principal

---------------------------------------------------------------------------
(* C10 *)

ClaimMonthLength(y, m) ==
    IF m = 2
    THEN (IF y % 4 = 0 /\ (y % 100 # 0 \/ y % 400 = 0) THEN 29 ELSE 28)
    ELSE IF m \in {4, 6, 9, 11} THEN 30 ELSE 31

\* C10: each due date lies in the calendar month after the previous due
\* date (the start date for installment 1) and its day is the smaller of
\* the previous day-of-month and the length of that month; so the day of
\* the due dates never grows along the schedule
C10_DueDateArithmetic ==
    \A i \in Installments :
        LET prev == PeriodStart(i)
            due  == schedule[i].date
        IN  /\ due.y * 12 + due.m = prev.y * 12 + prev.m + 1
            /\ due.d = Min(prev.d, ClaimMonthLength(due.y, due.m))
            /\ due.d <= prev.d

\* a schedule clamped to 30, then to 29 in February 2024, whose later due
\* dates in longer months stay on the clamped day
C10_Witness ==
    /\ Returned
    /\ args.start_date.d = 31
    /\ \E i, j, k \in Installments :
          /\ i < j /\ j < k
          /\ schedule[i].date.d = 30 /\ schedule[i].date.m = 5
          /\ schedule[j].date = Date(2024, 2, 29)
          /\ schedule[k].date = Date(2024, 3, 29)

====
